---- MODULE Spec2Model ----
(***************************************************************************)
(* A model of tf-tfe: the bulk migration of Terraform state files from S3  *)
(* into Terraform Enterprise workspaces.  Two program variants exist: the  *)
(* one of main.go, which also rewrites the backend block of a Bitbucket    *)
(* hosted configuration file, and the earlier one of unnamed/part_000,     *)
(* which stops after the state upload.                                     *)
(*                                                                         *)
(* Texts are sequences of one-character strings.  Positions are the        *)
(* zero-based byte offsets of the Go code; Slice(s, a, b) is Go's s[a:b].  *)
(***************************************************************************)
EXTENDS Integers, Sequences, FiniteSets, TLC

VARIABLES
  \* ---- the migration pipeline (main, Migrator.worker) ----
  variant,      \* "rewrite" (main.go) or "plain" (unnamed/part_000)
  input,        \* the records of the CSV file
  mainpc,       \* position of main
  idx,          \* number of records main has read
  tasks,        \* number of tasks main has built (task ids are 1..tasks)
  enq,          \* number of tasks the queueing loop has sent
  queue,        \* the buffered channel
  wg,           \* the WaitGroup counter
  wpc,          \* position of each worker goroutine
  wtask,        \* the task each worker holds (0: none)
  wws,          \* each worker's local w: the workspace handle returned
  werr,         \* each worker's local err
  state,        \* task.state: the downloaded bytes
  meta,         \* task.meta
  calls,        \* per task, the stage calls made, in order, with their result
  bbcalls,      \* per task, the Bitbucket calls made, in order, with their result
  visits,       \* per task, how many times a worker received it
  outLog,       \* per task, the outcome lines logged for it
  workspaces,   \* remote: the workspaces created
  stateVersions,\* remote: the state versions created
  written,      \* remote: per task, the contents committed to its file
  \* ---- the backend rewrite, taken alone (findTerraformBlock, updateBackend) ----
  text,         \* the configuration text
  hostname,     \* m.hostname
  organization, \* m.organization
  workspace,    \* t.workspace
  span,         \* <<start, end>> as returned by findTerraformBlock
  newText,      \* the rewritten text
  span2,        \* <<start, end>> as found in the rewritten text
  newText2,     \* the rewritten text, rewritten again
  lpc           \* position of the rewrite

pipeVars ==
  <<variant, input, mainpc, idx, tasks, enq, queue, wg, wpc, wtask, wws, werr,
    state, meta, calls, bbcalls, visits, outLog, workspaces, stateVersions,
    written>>

textVars ==
  <<text, hostname, organization, workspace, span, newText, span2, newText2, lpc>>

vars == <<pipeVars, textVars>>

-----------------------------------------------------------------------------
(* Bounds of the model. *)

\* Longest configuration text, in pieces (a piece is a brace, a filler
\* character or the keyword).
MaxPieces == 5

\* Longest input file, in records.
MaxRecords == 2

\* The number of worker goroutines started (10 in the program).
workers == 2

\* The capacity of the queue channel (100 in the program).
queueCap == 1

-----------------------------------------------------------------------------
(* Text helpers. *)

\* Go's s[a:b].
Slice(s, a, b) == SubSeq(s, a + 1, b)

\* Go's s[pos].
At(s, pos) == s[pos + 1]

\* The header keyword of the block, "terraform".
terraform == <<"t", "e", "r", "r", "a", "f", "o", "r", "m">>

\* const backendConfig, cut at its three %s verbs.
backendConfig1 ==
  <<
     "t", "e", "r", "r", "a", "f", "o", "r", "m", " ", "{", "\n",
     " ", " ", "b", "a", "c", "k", "e", "n", "d", " ", "\"", "r",
     "e", "m", "o", "t", "e", "\"", " ", "{", "\n", " ", " ", " ",
     " ", "h", "o", "s", "t", "n", "a", "m", "e", " ", " ", " ",
     " ", " ", "=", " ", "\"" >>

backendConfig2 ==
  <<
     "\"", "\n", " ", " ", " ", " ", "o", "r", "g", "a", "n", "i",
     "z", "a", "t", "i", "o", "n", " ", "=", " ", "\"" >>

backendConfig3 ==
  <<
     "\"", "\n", "\n", " ", " ", " ", " ", "w", "o", "r", "k", "s",
     "p", "a", "c", "e", "s", " ", "{", "\n", " ", " ", " ", " ",
     " ", " ", "n", "a", "m", "e", " ", "=", " ", "\"" >>

backendConfig4 ==
  <<
     "\"", "\n", " ", " ", " ", " ", "}", "\n", " ", " ", "}", "\n",
     "}" >>

\* fmt.Sprintf(backendConfig, h, o, w)
backendConfigUnclosed(h, o, w) ==
  backendConfig1 \o h \o backendConfig2 \o o \o backendConfig3 \o w \o <<"\"", "\n">>

backendConfig(h, o, w) ==
  backendConfig1 \o h \o backendConfig2 \o o \o backendConfig3 \o w \o backendConfig4

-----------------------------------------------------------------------------
(* findTerraformBlock *)

\* The test of line 308 that makes the scan skip a position while no header
\* has been found.
HeaderMismatch(content, pos) ==
  pos + 9 < Len(content) /\ Slice(content, pos, pos + 9) # terraform

\* The switch of lines 313-320: the depth counter after rune r.
BraceStepIgnoreClose(openBr, r) ==
  IF r = "{" THEN openBr + 1 ELSE openBr

BraceStep(openBr, r) ==
  IF r = "{" THEN openBr + 1
  ELSE IF r = "}" THEN openBr - 1
  ELSE openBr

\* The locals of findTerraformBlock when the loop is entered, with the
\* values returned unless the loop returns others.
ScanStart ==
  [startPos |-> -1, openBr |-> 0, returned |-> FALSE, start |-> -1, end |-> -1]

\* One turn of the loop of lines 306-325, at position pos: the locals after
\* it.  Nothing follows a return.
LoopBody(content, pos, st) ==
  IF st.returned THEN st
  ELSE IF st.startPos = -1 /\ HeaderMismatch(content, pos) THEN st
  ELSE LET sp == IF st.startPos = -1 THEN pos ELSE st.startPos
           r  == At(content, pos)
           br == BraceStep(st.openBr, r)
       IN  IF r \notin {"{", "}"}
           THEN [st EXCEPT !.startPos = sp]
           ELSE IF br = 0 /\ sp # -1
           THEN [startPos |-> sp, openBr |-> br, returned |-> TRUE,
                 start |-> sp, end |-> pos + 1]
           ELSE [st EXCEPT !.startPos = sp, !.openBr = br]

\* The turns of the loop at positions lo .. hi-1, in order: those before
\* mid and then, unless the loop has returned, those from mid on.
RECURSIVE ScanRange(_, _, _, _)
ScanRange(content, lo, hi, st) ==
  IF lo >= hi THEN st
  ELSE IF hi = lo + 1 THEN LoopBody(content, lo, st)
  ELSE LET mid == (lo + hi) \div 2
           first == ScanRange(content, lo, mid, st)
       IN  IF first.returned THEN first ELSE ScanRange(content, mid, hi, first)

findTerraformBlockKeepsStart(content) ==
  LET st == ScanRange(content, 0, Len(content), ScanStart)
  IN  <<st.startPos, st.end>>

findTerraformBlock(content) ==
  LET st == ScanRange(content, 0, Len(content), ScanStart)
  IN  <<st.start, st.end>>

\* Line 293: content[0:start] + tfBlock + content[end:]
SpliceDropsByte(content, start, end, tfBlock) ==
  Slice(content, 0, start) \o tfBlock \o Slice(content, end + 1, Len(content))

Splice(content, start, end, tfBlock) ==
  Slice(content, 0, start) \o tfBlock \o Slice(content, end, Len(content))

-----------------------------------------------------------------------------
(* The configuration texts the rewrite is run on. *)

Pieces == << <<"{">>, <<"}">>, <<"x">>, terraform >>

RECURSIVE Flatten(_)
Flatten(ps) ==
  IF ps = <<>> THEN <<>> ELSE Pieces[Head(ps)] \o Flatten(Tail(ps))

\* The text of the specification's scenario.
ScenarioText ==
  <<
     "f", "o", "o", "\n", "t", "e", "r", "r", "a", "f", "o", "r",
     "m", " ", "{", "\n", " ", "b", "a", "c", "k", "e", "n", "d",
     " ", "\"", "l", "o", "c", "a", "l", "\"", " ", "{", "}", "\n",
     "}", "\n", "b", "a", "r" >>

Texts ==
  { Flatten(ps) : ps \in UNION { [1..n -> 1..Len(Pieces)] : n \in 0..MaxPieces } }
    \cup {ScenarioText}

\* The workspace names of the task: record[workspaceField], any string.
Names == { <<"w">>, <<"w", "s">>, <<"}">> }

-----------------------------------------------------------------------------
(* The state files found in S3, as far as json.Unmarshal into Meta can tell  *)
(* them apart: whether the bytes are JSON at all, and for each key Meta has  *)
(* a tag for, whether it is absent, a string or a number.                    *)

Absent == [t |-> "absent", s |-> "", n |-> 0]
Str(x) == [t |-> "str", s |-> x, n |-> 0]
Num(k) == [t |-> "num", s |-> "", n |-> k]

\* The buffer of aws.NewWriteAtBuffer(nil): no bytes.
NoBytes ==
  [valid |-> FALSE, id |-> "none", lineage |-> Absent, serial |-> Absent,
   terraform_version |-> Absent, terraform_dash_version |-> Absent]

\* The objects a download for task t may deliver.
Objects(t) ==
  { \* not JSON
    [valid |-> FALSE, id |-> "garbage", lineage |-> Absent, serial |-> Absent,
     terraform_version |-> Absent, terraform_dash_version |-> Absent],
    \* a state file as Terraform writes it
    [valid |-> TRUE, id |-> "tfstate", lineage |-> Str("lin"), serial |-> Num(t),
     terraform_version |-> Str("0.11"), terraform_dash_version |-> Absent],
    \* the same with the key spelled terraform-version
    [valid |-> TRUE, id |-> "dashed", lineage |-> Str("lin"), serial |-> Num(t),
     terraform_version |-> Absent, terraform_dash_version |-> Str("0.11")],
    \* JSON whose lineage is the empty string
    [valid |-> TRUE, id |-> "nolineage", lineage |-> Str(""), serial |-> Num(t),
     terraform_version |-> Str("0.11"), terraform_dash_version |-> Str("0.11")] }

\* &Meta{}
EmptyMeta == [Lineage |-> "", Serial |-> 0, TerraformVersion |-> ""]

\* The value of the key that Meta.TerraformVersion is tagged with.
VersionField(doc, v) ==
  IF v = "rewrite" THEN doc.terraform_version ELSE doc.terraform_dash_version

\* json.Unmarshal(t.state.Bytes(), t.meta): a syntax error leaves the target
\* untouched; a value of the wrong type is skipped, the other fields are
\* still decoded, and the type error is returned.
Unmarshal(doc, m, v) ==
  IF ~doc.valid THEN [err |-> TRUE, meta |-> m]
  ELSE LET ver == VersionField(doc, v)
       IN  [err  |-> doc.lineage.t = "num" \/ doc.serial.t = "str" \/ ver.t = "num",
            meta |-> [Lineage |-> IF doc.lineage.t = "str" THEN doc.lineage.s
                                  ELSE m.Lineage,
                      Serial  |-> IF doc.serial.t = "num" THEN doc.serial.n
                                  ELSE m.Serial,
                      TerraformVersion |-> IF ver.t = "str" THEN ver.s
                                           ELSE m.TerraformVersion]]

\* downloadState after the download call returned (dlErr: it failed; doc: the
\* bytes it delivered): the error returned, the buffer and the metadata.
downloadState(dlErr, doc, m, v) ==
  IF dlErr THEN [err |-> "DownloadError", state |-> NoBytes, meta |-> m]
  ELSE LET u == Unmarshal(doc, m, v)
       IN  IF u.err
           THEN [err |-> "nil", state |-> doc, meta |-> u.meta]
           ELSE IF u.meta.Lineage = "" \/ u.meta.TerraformVersion = ""
           THEN [err |-> "IncompleteStateMetadata", state |-> doc, meta |-> u.meta]
           ELSE [err |-> "nil", state |-> doc, meta |-> u.meta]

\* md5.Sum and base64.StdEncoding.EncodeToString, as injective functions of
\* the bytes.
MD5(bytes) == <<"md5", bytes.id, bytes.serial.n>>
Base64(bytes) == <<"base64", bytes.id, bytes.serial.n>>

-----------------------------------------------------------------------------
(* The input file and the tasks. *)

\* len(record) != 7 in main.go, != 3 in the earlier variant.
NumFields(v) == IF v = "rewrite" THEN 7 ELSE 3

\* A record: whether the CSV reader can read it, and its number of fields.
Records ==
  { [readable |-> TRUE, n |-> 7], [readable |-> TRUE, n |-> 3],
    [readable |-> FALSE, n |-> 0] }

Inputs == UNION { [1..n -> Records] : n \in 0..MaxRecords }

\* r.Read() fails on an unreadable record and, the reader being left at
\* FieldsPerRecord = 0, on a record whose field count differs from the
\* first record's.
ReadFails(in, i) ==
  ~in[i].readable \/ in[i].n # in[1].n

\* The check of line 163.
RecordOK(rec, v) == rec.n = NumFields(v)

TaskIds == 1..MaxRecords
WorkerIds == 1..workers

Digits == <<"1", "2", "3", "4", "5", "6", "7", "8", "9">>

\* t.workspace of task t.
WorkspaceName(t) == <<"w", Digits[t]>>

\* The contents Bitbucket may hold for a task's configuration file.
FileContents ==
  { <<"x", "\n">> \o terraform \o <<" ", "{", "{", "}", "}", "\n", "y", "\n">>,
    <<"x", "\n">> }

-----------------------------------------------------------------------------
(* The closure of Migrator.worker: which step follows a stage. *)

NextStage(stage, v) ==
  CASE stage = "download" -> "create"
    [] stage = "create"   -> "upload"
    [] stage = "upload"   -> IF v = "rewrite" THEN "update" ELSE "report"
    [] stage = "update"   -> "report"

AfterStageIgnoringErr(stage, err, v) == NextStage(stage, v)

AfterStageRetryOnErr(stage, err, v) ==
  IF err # "nil" THEN stage ELSE NextStage(stage, v)

AfterStage(stage, err, v) ==
  IF err # "nil" THEN "report" ELSE NextStage(stage, v)

\* What `for task := range queue` takes off the channel, and what it leaves.
ReceiveLeavesTask(q) == q

Received(q) == Tail(q)

\* The step of a worker after it logged the outcome of a task.
AfterReportReturnOnErr(err) == IF err # "nil" THEN "exited" ELSE "done"

AfterReport(err) == "done"

\* The step of main after a record that fails RecordOK or cannot be read.
OnBadRecordSkip == "read"

OnBadRecord == "exit1"

\* The counter after wg.Done().
DoneTwice(n) == n - 2

DoneWithoutDecrement(n) == n

Done(n) == n - 1

\* Whether wg.Wait() returns, the counter being n.
WaitReleasedAtOnce(n) == TRUE

WaitReleased(n) == n = 0

Log(t, op, res) == [calls EXCEPT ![t] = Append(@, [op |-> op, res |-> res])]

\* Lines 223-227: the outcome line logged for task t once the closure has
\* returned err, which is when no stage follows (next = "report").
Logged(t, next, err) ==
  IF next = "report"
  THEN [outLog EXCEPT ![t] = Append(@, [ok |-> err = "nil", err |-> err])]
  ELSE outLog

\* The step of the worker after a stage: the next stage, or the step after
\* the outcome line.
StepAfter(next, err) == IF next = "report" THEN AfterReport(err) ELSE next

-----------------------------------------------------------------------------
(* main *)

InitPipeline ==
  /\ variant \in {"rewrite", "plain"}
  /\ input \in Inputs
  /\ mainpc = "setup"
  /\ idx = 0
  /\ tasks = 0
  /\ enq = 0
  /\ queue = <<>>
  /\ wg = 0
  /\ wpc = [w \in WorkerIds |-> "init"]
  /\ wtask = [w \in WorkerIds |-> 0]
  /\ wws = [w \in WorkerIds |-> 0]
  /\ werr = [w \in WorkerIds |-> "nil"]
  /\ state = [t \in TaskIds |-> NoBytes]
  /\ meta = [t \in TaskIds |-> EmptyMeta]
  /\ calls = [t \in TaskIds |-> <<>>]
  /\ bbcalls = [t \in TaskIds |-> <<>>]
  /\ visits = [t \in TaskIds |-> 0]
  /\ outLog = [t \in TaskIds |-> <<>>]
  /\ workspaces = {}
  /\ stateVersions = {}
  /\ written = [t \in TaskIds |-> <<>>]

workerVars == <<wpc, wtask, wws, werr>>
taskVars == <<state, meta>>
histVars == <<calls, bbcalls, visits, outLog>>
remoteVars == <<workspaces, stateVersions, written>>

\* Lines 67-148: flags, the input file, the clients.  Any of them failing
\* ends the process with os.Exit(1).
Setup ==
  /\ mainpc = "setup"
  /\ \E ok \in BOOLEAN : mainpc' = IF ok THEN "read" ELSE "exit1"
  /\ UNCHANGED <<variant, input, idx, tasks, enq, queue, wg, workerVars,
                 taskVars, histVars, remoteVars, textVars>>

\* Lines 154-181: one turn of the reading loop.
ReadRecord ==
  /\ mainpc = "read"
  /\ IF idx = Len(input)
     THEN /\ mainpc' = "start"
          /\ UNCHANGED <<idx, tasks>>
     ELSE IF ReadFails(input, idx + 1) \/ ~RecordOK(input[idx + 1], variant)
     THEN /\ mainpc' = OnBadRecord
          /\ idx' = idx + 1
          /\ UNCHANGED tasks
     ELSE /\ mainpc' = "read"
          /\ idx' = idx + 1
          /\ tasks' = tasks + 1
  /\ UNCHANGED <<variant, input, enq, queue, wg, workerVars, taskVars,
                 histVars, remoteVars, textVars>>

\* Lines 185-191: the queue is made and the workers are started.
StartWorkers ==
  /\ mainpc = "start"
  /\ wpc' = [w \in WorkerIds |-> "recv"]
  /\ mainpc' = IF tasks = 0 THEN "wait" ELSE "add"
  /\ UNCHANGED <<variant, input, idx, tasks, enq, queue, wg, wtask, wws, werr,
                 taskVars, histVars, remoteVars, textVars>>

\* Line 195: wg.Add(1)
AddTask ==
  /\ mainpc = "add"
  /\ wg' = wg + 1
  /\ mainpc' = "send"
  /\ UNCHANGED <<variant, input, idx, tasks, enq, queue, workerVars, taskVars,
                 histVars, remoteVars, textVars>>

\* Line 196: queue <- task, which blocks while the channel is full.
SendTask ==
  /\ mainpc = "send"
  /\ Len(queue) < queueCap
  /\ queue' = Append(queue, enq + 1)
  /\ enq' = enq + 1
  /\ mainpc' = IF enq + 1 = tasks THEN "wait" ELSE "add"
  /\ UNCHANGED <<variant, input, idx, tasks, wg, workerVars, taskVars,
                 histVars, remoteVars, textVars>>

\* Line 199: wg.Wait() returns.
Wait ==
  /\ mainpc = "wait"
  /\ WaitReleased(wg)
  /\ mainpc' = "finished"
  /\ UNCHANGED <<variant, input, idx, tasks, enq, queue, wg, workerVars,
                 taskVars, histVars, remoteVars, textVars>>

FinishFailingOnErrors ==
  /\ mainpc = "finished"
  /\ mainpc' = IF \E t \in 1..tasks : outLog[t] # <<>> /\ ~outLog[t][1].ok
               THEN "exit1" ELSE "exit0"
  /\ UNCHANGED <<variant, input, idx, tasks, enq, queue, wg, workerVars,
                 taskVars, histVars, remoteVars, textVars>>

\* Lines 200-201: the closing message is printed and main returns.
Finish ==
  /\ mainpc = "finished"
  /\ mainpc' = "exit0"
  /\ UNCHANGED <<variant, input, idx, tasks, enq, queue, wg, workerVars,
                 taskVars, histVars, remoteVars, textVars>>

-----------------------------------------------------------------------------
(* Migrator.worker *)

ReceiveWhileBusy(w) ==
  /\ wpc[w] # "init"
  /\ mainpc # "exit0"
  /\ queue # <<>>
  /\ wtask' = [wtask EXCEPT ![w] = Head(queue)]
  /\ queue' = Received(queue)
  /\ visits' = [visits EXCEPT ![Head(queue)] = @ + 1]
  /\ wpc' = [wpc EXCEPT ![w] = "download"]
  /\ UNCHANGED <<variant, input, mainpc, idx, tasks, enq, wg, wws, werr,
                 taskVars, calls, bbcalls, outLog, remoteVars, textVars>>

\* Line 204: the worker receives the next task.
Receive(w) ==
  /\ wpc[w] = "recv"
  /\ mainpc # "exit0"
  /\ queue # <<>>
  /\ wtask' = [wtask EXCEPT ![w] = Head(queue)]
  /\ queue' = Received(queue)
  /\ visits' = [visits EXCEPT ![Head(queue)] = @ + 1]
  /\ wpc' = [wpc EXCEPT ![w] = "download"]
  /\ UNCHANGED <<variant, input, mainpc, idx, tasks, enq, wg, wws, werr,
                 taskVars, calls, bbcalls, outLog, remoteVars, textVars>>

\* Line 206: m.downloadState(task)
DownloadState(w) ==
  /\ wpc[w] = "download"
  /\ LET t == wtask[w] IN
     \E dlErr \in BOOLEAN : \E doc \in Objects(t) :
       /\ dlErr => doc.id = "garbage"
       /\ \E r \in {downloadState(dlErr, doc, meta[t], variant)} :
          /\ state' = [state EXCEPT ![t] = r.state]
          /\ meta' = [meta EXCEPT ![t] = r.meta]
          /\ werr' = [werr EXCEPT ![w] = r.err]
          /\ calls' = Log(t, "Download", IF r.err = "nil" THEN "ok" ELSE "err")
          /\ outLog' = Logged(t, AfterStage("download", r.err, variant), r.err)
          /\ wpc' = [wpc EXCEPT ![w] = StepAfter(AfterStage("download", r.err, variant), r.err)]
  /\ UNCHANGED <<variant, input, mainpc, idx, tasks, enq, queue, wg, wtask, wws,
                 bbcalls, visits, remoteVars, textVars>>

\* Line 211: m.createWorkspace(task)
CreateWorkspace(w) ==
  /\ wpc[w] = "create"
  /\ LET t == wtask[w] IN
     \E ok \in BOOLEAN :
       LET err == IF ok THEN "nil" ELSE "WorkspaceCreationFailed" IN
       /\ workspaces' =
            IF ok
            THEN workspaces \cup
                   {[id |-> t, name |-> WorkspaceName(t),
                     organization |-> organization,
                     version |-> meta[t].TerraformVersion,
                     lineage |-> meta[t].Lineage]}
            ELSE workspaces
       /\ wws' = [wws EXCEPT ![w] = IF ok THEN t ELSE 0]
       /\ werr' = [werr EXCEPT ![w] = err]
       /\ calls' = Log(t, "CreateWorkspace", IF ok THEN "ok" ELSE "err")
       /\ outLog' = Logged(t, AfterStage("create", err, variant), err)
       /\ wpc' = [wpc EXCEPT ![w] = StepAfter(AfterStage("create", err, variant), err)]
  /\ UNCHANGED <<variant, input, mainpc, idx, tasks, enq, queue, wg, wtask,
                 taskVars, bbcalls, visits, stateVersions, written, textVars>>

\* uploadState (lines 268-279): the state version submitted for task t, given
\* the workspace handle ws, t.meta and the bytes of t.state.
uploadStateSharedBuffer(t, ws, m, bytes) ==
  [ws |-> ws, task |-> t, lineage |-> m.Lineage, serial |-> m.Serial,
   md5 |-> MD5(state[1]), state |-> Base64(state[1])]

uploadState(t, ws, m, bytes) ==
  [ws |-> ws, task |-> t, lineage |-> m.Lineage, serial |-> m.Serial,
   md5 |-> MD5(bytes), state |-> Base64(bytes)]

\* Line 216: m.uploadState(task, w)
UploadState(w) ==
  /\ wpc[w] = "upload"
  /\ LET t == wtask[w] IN
     \E ok \in BOOLEAN :
       LET err == IF ok THEN "nil" ELSE "StateUploadFailed" IN
       /\ stateVersions' =
            IF ok
            THEN stateVersions \cup {uploadState(t, wws[w], meta[t], state[t])}
            ELSE stateVersions
       /\ werr' = [werr EXCEPT ![w] = err]
       /\ calls' = Log(t, "UploadState", IF ok THEN "ok" ELSE "err")
       /\ outLog' = Logged(t, AfterStage("upload", err, variant), err)
       /\ wpc' = [wpc EXCEPT ![w] = StepAfter(AfterStage("upload", err, variant), err)]
  /\ UNCHANGED <<variant, input, mainpc, idx, tasks, enq, queue, wg, wtask, wws,
                 taskVars, bbcalls, visits, workspaces, written, textVars>>

\* The URLs of bitbucket.go: repoURL filled in with the configuration file
\* and the branch of task t (lines 65 and 114), commitURL with its project
\* and repository (line 23).
RepoURL(t) == [api |-> "browse", file |-> <<"f", Digits[t]>>, at |-> <<"b", Digits[t]>>]
CommitURL(t) == [api |-> "commits", file |-> <<>>, at |-> <<>>]

\* writeBitbucketFile (bitbucket.go 106-178), given whether the latest commit
\* is found and whether the PUT is accepted: the error returned, the calls
\* made and the content committed, if any.
writeBitbucketFileIgnoringCommit(t, content, commitOK, putOK) ==
  [err |-> IF commitOK /\ putOK THEN "nil" ELSE "WriteFileFailed",
   bb  |-> <<[op |-> "latestRevision", res |-> IF commitOK THEN "ok" ELSE "err",
              url |-> CommitURL(t)],
             [op |-> "writeFile", res |-> IF putOK THEN "ok" ELSE "err",
              url |-> RepoURL(t)]>>,
   put |-> IF putOK THEN <<content>> ELSE <<>>]

writeBitbucketFile(t, content, commitOK, putOK) ==
  IF ~commitOK
  THEN [err |-> "WriteFileFailed",
        bb  |-> <<[op |-> "latestRevision", res |-> "err", url |-> CommitURL(t)]>>,
        put |-> <<>>]
  ELSE IF ~putOK
  THEN [err |-> "WriteFileFailed",
        bb  |-> <<[op |-> "latestRevision", res |-> "ok", url |-> CommitURL(t)],
                  [op |-> "writeFile", res |-> "err", url |-> RepoURL(t)]>>,
        put |-> <<>>]
  ELSE [err |-> "nil",
        bb  |-> <<[op |-> "latestRevision", res |-> "ok", url |-> CommitURL(t)],
                  [op |-> "writeFile", res |-> "ok", url |-> RepoURL(t)]>>,
        put |-> <<content>>]

\* updateBackend (lines 281-300) for task t, given what Bitbucket answers:
\* whether the file can be read and with what content, whether the latest
\* commit is found, whether the PUT is accepted.  The result: the error
\* returned, the Bitbucket calls made and the content committed, if any.
updateBackend(t, readOK, content, commitOK, putOK, h, o, w) ==
  IF ~readOK
  THEN [err |-> "ReadFileFailed",
        bb  |-> <<[op |-> "readFile", res |-> "err", url |-> RepoURL(t)]>>,
        put |-> <<>>]
  ELSE LET found == findTerraformBlock(content)
           new == Splice(content, found[1], found[2], backendConfig(h, o, w))
           read == <<[op |-> "readFile", res |-> "ok", url |-> RepoURL(t)]>>
           wr == writeBitbucketFile(t, new, commitOK, putOK)
       IN  IF found[1] = -1 \/ found[2] = -1
           THEN [err |-> "NoBlockFound", bb |-> read, put |-> <<>>]
           ELSE [err |-> wr.err, bb |-> read \o wr.bb, put |-> wr.put]

\* The answers of Bitbucket that make a difference to updateBackend.
BitbucketAnswers ==
  { a \in [readOK : BOOLEAN, content : FileContents, commitOK : BOOLEAN,
           putOK : BOOLEAN] :
      /\ ~a.readOK => a.content = <<"x", "\n">>
      /\ (~a.readOK \/ findTerraformBlock(a.content)[1] = -1) => a.commitOK
      /\ ~a.commitOK => a.putOK }

UpdateBackendRollsBack(w) ==
  /\ wpc[w] = "update"
  /\ LET t == wtask[w] IN
     \E a \in BitbucketAnswers :
       \E r \in {updateBackend(t, a.readOK, a.content, a.commitOK, a.putOK,
                                hostname, organization, WorkspaceName(t))} :
       /\ bbcalls' = [bbcalls EXCEPT ![t] = @ \o r.bb]
       /\ written' = [written EXCEPT ![t] = @ \o r.put]
       /\ werr' = [werr EXCEPT ![w] = r.err]
       /\ calls' = Log(t, "UpdateBackend", IF r.err = "nil" THEN "ok" ELSE "err")
       /\ outLog' = Logged(t, AfterStage("update", r.err, variant), r.err)
       /\ wpc' = [wpc EXCEPT ![w] = StepAfter(AfterStage("update", r.err, variant), r.err)]
       /\ workspaces' = IF r.err = "nil" THEN workspaces
                        ELSE { ws \in workspaces : ws.id # t }
       /\ stateVersions' = IF r.err = "nil" THEN stateVersions
                           ELSE { sv \in stateVersions : sv.task # t }
  /\ UNCHANGED <<variant, input, mainpc, idx, tasks, enq, queue, wg, wtask, wws,
                 taskVars, visits, textVars>>

\* Line 221: m.updateBackend(task)
UpdateBackend(w) ==
  /\ wpc[w] = "update"
  /\ LET t == wtask[w] IN
     \E a \in BitbucketAnswers :
       \E r \in {updateBackend(t, a.readOK, a.content, a.commitOK, a.putOK,
                                hostname, organization, WorkspaceName(t))} :
       /\ bbcalls' = [bbcalls EXCEPT ![t] = @ \o r.bb]
       /\ written' = [written EXCEPT ![t] = @ \o r.put]
       /\ werr' = [werr EXCEPT ![w] = r.err]
       /\ calls' = Log(t, "UpdateBackend", IF r.err = "nil" THEN "ok" ELSE "err")
       /\ outLog' = Logged(t, AfterStage("update", r.err, variant), r.err)
       /\ wpc' = [wpc EXCEPT ![w] = StepAfter(AfterStage("update", r.err, variant), r.err)]
  /\ UNCHANGED <<variant, input, mainpc, idx, tasks, enq, queue, wg, wtask, wws,
                 taskVars, visits, workspaces, stateVersions, textVars>>

\* Line 229: wg.Done(), and back to the head of the loop, where task, err
\* and w go out of scope.
WgDone(w) ==
  /\ wpc[w] = "done"
  /\ wg' = Done(wg)
  /\ wpc' = [wpc EXCEPT ![w] = "recv"]
  /\ wtask' = [wtask EXCEPT ![w] = 0]
  /\ wws' = [wws EXCEPT ![w] = 0]
  /\ werr' = [werr EXCEPT ![w] = "nil"]
  /\ UNCHANGED <<variant, input, mainpc, idx, tasks, enq, queue, taskVars,
                 histVars, remoteVars, textVars>>

InitTextIdle ==
  /\ text = <<>>
  /\ hostname = <<"h">>
  /\ organization = <<"o">>
  /\ workspace = <<>>
  /\ span = <<0, 0>>
  /\ newText = <<>>
  /\ span2 = <<0, 0>>
  /\ newText2 = <<>>
  /\ lpc = "off"

Init == InitPipeline /\ InitTextIdle

Next ==
  \/ Setup
  \/ ReadRecord
  \/ StartWorkers
  \/ AddTask
  \/ SendTask
  \/ Wait
  \/ Finish
  \/ \E w \in WorkerIds : Receive(w)
  \/ \E w \in WorkerIds : DownloadState(w)
  \/ \E w \in WorkerIds : CreateWorkspace(w)
  \/ \E w \in WorkerIds : UploadState(w)
  \/ \E w \in WorkerIds : UpdateBackend(w)
  \/ \E w \in WorkerIds : WgDone(w)

Spec == Init /\ [][Next]_vars

\* The steps of the main goroutine and of worker goroutine w.
MainStep ==
  Setup \/ ReadRecord \/ StartWorkers \/ AddTask \/ SendTask \/ Wait \/ Finish

WorkerStep(w) ==
  \/ Receive(w)
  \/ DownloadState(w)
  \/ CreateWorkspace(w)
  \/ UploadState(w)
  \/ UpdateBackend(w)
  \/ WgDone(w)

\* The program under a scheduler that lets every goroutine that can take a
\* step take one, every remote call returning: a stage that was called
\* returns, a send on a queue that is not full and a receive from a queue
\* that stays non-empty go through.
FairSpec ==
  /\ Spec
  /\ WF_vars(MainStep)
  /\ \A w \in WorkerIds : WF_vars(WorkerStep(w))

-----------------------------------------------------------------------------
(* The backend rewrite taken alone: lines 287-293 of updateBackend on one    *)
(* text, for one task.                                                       *)

InitPipelineIdle ==
  /\ variant = "rewrite"
  /\ input = <<>>
  /\ mainpc = "off"
  /\ idx = 0
  /\ tasks = 0
  /\ enq = 0
  /\ queue = <<>>
  /\ wg = 0
  /\ wpc = [w \in WorkerIds |-> "init"]
  /\ wtask = [w \in WorkerIds |-> 0]
  /\ wws = [w \in WorkerIds |-> 0]
  /\ werr = [w \in WorkerIds |-> "nil"]
  /\ state = [t \in TaskIds |-> NoBytes]
  /\ meta = [t \in TaskIds |-> EmptyMeta]
  /\ calls = [t \in TaskIds |-> <<>>]
  /\ bbcalls = [t \in TaskIds |-> <<>>]
  /\ visits = [t \in TaskIds |-> 0]
  /\ outLog = [t \in TaskIds |-> <<>>]
  /\ workspaces = {}
  /\ stateVersions = {}
  /\ written = [t \in TaskIds |-> <<>>]

InitText ==
  /\ InitPipelineIdle
  /\ text \in Texts
  /\ hostname = <<"h">>
  /\ organization = <<"o">>
  /\ workspace \in Names
  /\ span = <<0, 0>>
  /\ newText = <<>>
  /\ span2 = <<0, 0>>
  /\ newText2 = <<>>
  /\ lpc = "locate"

\* Line 287: start, end := findTerraformBlock(content)
Locate ==
  /\ lpc = "locate"
  /\ span' = findTerraformBlock(text)
  /\ lpc' = "located"
  /\ UNCHANGED <<pipeVars, text, hostname, organization, workspace, newText,
                 span2, newText2>>

\* Lines 288-290: no block, updateBackend returns the error.
NoBlock ==
  /\ lpc = "located"
  /\ (span[1] = -1 \/ span[2] = -1)
  /\ lpc' = "noblock"
  /\ UNCHANGED <<pipeVars, text, hostname, organization, workspace, span, newText,
                 span2, newText2>>

\* Lines 292-293: the block is replaced.
Rewrite ==
  /\ lpc = "located"
  /\ ~(span[1] = -1 \/ span[2] = -1)
  /\ newText' = Splice(text, span[1], span[2],
                       backendConfig(hostname, organization, workspace))
  /\ lpc' = "rewritten"
  /\ UNCHANGED <<pipeVars, text, hostname, organization, workspace, span,
                 span2, newText2>>

\* Lines 287-293 run once more, on the text the first run produced, with
\* the same host name, organization and workspace.
RewriteAgain ==
  /\ lpc = "rewritten"
  /\ span2' = findTerraformBlock(newText)
  /\ newText2' =
       IF span2'[1] = -1 \/ span2'[2] = -1
       THEN newText
       ELSE Splice(newText, span2'[1], span2'[2],
                   backendConfig(hostname, organization, workspace))
  /\ lpc' = "rewritten2"
  /\ UNCHANGED <<pipeVars, text, hostname, organization, workspace, span, newText>>

NextText == Locate \/ NoBlock \/ Rewrite \/ RewriteAgain

SpecText == InitText /\ [][NextText]_vars

-----------------------------------------------------------------------------
(* Notions the properties of the rewrite are stated in, defined on the text  *)
(* alone.                                                                    *)

\* The keyword stands at offset p of s.
Occurs(s, p) == p + Len(terraform) <= Len(s) /\ Slice(s, p, p + Len(terraform)) = terraform

Occurrences(s) == { p \in 0..Len(s) : Occurs(s, p) }

FirstOccurrence(s) ==
  CHOOSE p \in Occurrences(s) : \A q \in Occurrences(s) : p <= q

\* The brace depth of s[a:b]: opening minus closing braces.
Depth(s, a, b) ==
  Cardinality({ i \in a + 1..b : s[i] = "{" }) - Cardinality({ i \in a + 1..b : s[i] = "}" })

\* The offsets just after a brace at which the depth counted from p is zero.
Closures(s, p) ==
  { e \in p + 1..Len(s) : At(s, e - 1) \in {"{", "}"} /\ Depth(s, p, e) = 0 }

\* s, counted on its own, is balanced: no prefix closes more than it opened
\* and the whole closes all it opened.
Balanced(s) ==
  /\ Depth(s, 0, Len(s)) = 0
  /\ \A e \in 0..Len(s) : Depth(s, 0, e) >= 0

\* A block follows the keyword at p: the braces from p on open before they
\* close, and return to depth zero.
BlockAt(s, p) ==
  \E e \in Closures(s, p) : \A d \in p..e - 1 : Depth(s, p, d) >= 0

NotFound == <<-1, -1>>

\* C8: findTerraformBlock returns (-1, -1) for every text in which the
\* keyword does not occur, and for every text in which it occurs but the
\* brace depth never returns to zero after it.
C8_NotFoundWithoutBlock ==
  lpc # "locate" =>
    ((Occurrences(text) = {} \/ Closures(text, FirstOccurrence(text)) = {})
       => span = NotFound)

\* C9: when the keyword occurs and a balanced block follows its first
\* occurrence, the span returned starts at the first character of that
\* occurrence, whatever braces precede it, and its content is balanced.
C9_SpanStartsAtKeywordAndIsBalanced ==
  (lpc # "locate" /\ Occurrences(text) # {} /\ BlockAt(text, FirstOccurrence(text)))
    => /\ span # NotFound
       /\ span[1] = FirstOccurrence(text)
       /\ span[2] <= Len(text)
       /\ Balanced(Slice(text, span[1], span[2]))

\* C9 witness: a located block whose keyword is not at the start of the
\* text and has a closing brace before it.
C9_Witness ==
  /\ lpc # "locate"
  /\ Occurrences(text) # {}
  /\ BlockAt(text, FirstOccurrence(text))
  /\ FirstOccurrence(text) > 0
  /\ At(text, 0) = "}"
  /\ span[1] = FirstOccurrence(text)

\* The text the scenario expects: "foo\n" + the template for h, o, w + "\nbar".
ScenarioResult ==
  <<"f", "o", "o", "\n">> \o backendConfig(<<"h">>, <<"o">>, <<"w">>)
    \o <<"\n", "b", "a", "r">>

\* C10: the rewritten text is the text before the span, the template for the
\* host name, organization and workspace, and the text from the end of the
\* span on: every byte outside the span is kept, in order.  The scenario's
\* text gives "foo\n" + template + "\nbar".
C10_RewriteFrame ==
  lpc = "rewritten" =>
    LET tpl == backendConfig(hostname, organization, workspace)
        start == span[1]
        end == span[2]
    IN  /\ Len(newText) = start + Len(tpl) + (Len(text) - end)
        /\ \A i \in 1..start : newText[i] = text[i]
        /\ \A i \in 1..Len(tpl) : newText[start + i] = tpl[i]
        /\ \A j \in end + 1..Len(text) : newText[start + Len(tpl) + (j - end)] = text[j]
        /\ (text = ScenarioText /\ workspace = <<"w">>) => newText = ScenarioResult

\* C10 witness: the scenario's text has been rewritten.
C10_Witness ==
  /\ lpc = "rewritten"
  /\ text = ScenarioText
  /\ workspace = <<"w">>
  /\ span = <<4, 37>>

-----------------------------------------------------------------------------
(* Notions the properties of the pipeline are stated in. *)

\* The stages of a task, in the order of the worker's closure.
StageOps ==
  IF variant = "rewrite"
  THEN <<"Download", "CreateWorkspace", "UploadState", "UpdateBackend">>
  ELSE <<"Download", "CreateWorkspace", "UploadState">>

\* Every stage of task t was called and returned without error.
AllStagesOK(t) ==
  /\ Len(calls[t]) = Len(StageOps)
  /\ \A i \in 1..Len(calls[t]) : calls[t][i].res = "ok"

Reported(t) == outLog[t] # <<>>
ReportedDone(t) == Reported(t) /\ outLog[t][1].ok
ReportedFailed(t) == Reported(t) /\ ~outLog[t][1].ok

\* main is past wg.Wait().
PastBarrier == mainpc \in {"finished", "exit0"}

\* Some record of the input is unreadable or has the wrong number of fields.
BadInput ==
  \E i \in 1..Len(input) :
    ~input[i].readable \/ input[i].n # input[1].n \/ input[i].n # NumFields(variant)

\* Nothing has been done for any record.
NothingExecuted ==
  /\ workspaces = {}
  /\ stateVersions = {}
  /\ \A t \in TaskIds :
       /\ calls[t] = <<>>
       /\ bbcalls[t] = <<>>
       /\ written[t] = <<>>
       /\ visits[t] = 0
       /\ outLog[t] = <<>>
       /\ state[t] = NoBytes

\* C1: every task is received at most once and held by at most one worker,
\* it gets at most one outcome line, and only after it was received; once
\* main is past wg.Wait() every task built from the input has been received
\* exactly once and has exactly one outcome line, so there are exactly as many
\* outcomes as tasks.
C1_OneOutcomePerTask ==
  /\ \A t \in TaskIds :
       /\ visits[t] <= 1
       /\ Len(outLog[t]) <= 1
       /\ Cardinality({ w \in WorkerIds : wtask[w] = t }) <= 1
       /\ (Reported(t) \/ calls[t] # <<>>) => visits[t] = 1
       /\ t > tasks => visits[t] = 0
  /\ PastBarrier =>
       \A t \in 1..tasks : visits[t] = 1 /\ Len(outLog[t]) = 1

\* C1 witness: a run over as many tasks as the input may hold is past
\* wg.Wait() with one outcome for each task.
C1_Witness ==
  /\ mainpc = "finished"
  /\ tasks = MaxRecords
  /\ \A t \in 1..tasks : visits[t] = 1 /\ Len(outLog[t]) = 1

\* C2: a failed task stops neither its worker nor main: no worker ever
\* leaves its loop, main never exits once the workers run, every reported
\* task whose stages all succeeded is reported Done whatever happened to the
\* other tasks, and past wg.Wait() every task is reported.
C2_FailureDoesNotAbortRun ==
  /\ \A w \in WorkerIds :
       wpc[w] \in {"init", "recv", "download", "create", "upload", "update",
                   "done"}
  /\ mainpc = "exit1" => \A w \in WorkerIds : wpc[w] = "init"
  /\ \A t \in TaskIds : Reported(t) => (ReportedDone(t) <=> AllStagesOK(t))
  /\ PastBarrier => \A t \in 1..tasks : Reported(t)
  /\ \A w \in WorkerIds :
       (wpc[w] = "done" /\ werr[w] # "nil") => ReportedFailed(wtask[w])

\* C2 witness: the run is complete, the download of the first task failed
\* and the second task is Done.
C2_Witness ==
  /\ mainpc = "finished"
  /\ tasks = 2
  /\ calls[1] = <<[op |-> "Download", res |-> "err"]>>
  /\ ReportedFailed(1)
  /\ ReportedDone(2)

\* C3: whenever createWorkspace has been called for a task, the lineage and
\* the Terraform version of the task's metadata are both non-empty.
C3_CreateOnlyWithCompleteMetadata ==
  \A t \in TaskIds :
    Len(calls[t]) >= 2 =>
      meta[t].Lineage # "" /\ meta[t].TerraformVersion # ""

\* C4: the stages of a task are called in the order Download,
\* CreateWorkspace, UploadState and, in the rewriting variant, UpdateBackend,
\* each only after the one before returned without error; a stage that
\* returned an error is the last one called; a task is reported Done exactly
\* when all its stages returned without error, and Failed otherwise.
C4_StagesInOrderAbortOnError ==
  \A t \in TaskIds :
    /\ Len(calls[t]) <= Len(StageOps)
    /\ \A i \in 1..Len(calls[t]) :
         /\ calls[t][i].op = StageOps[i]
         /\ i < Len(calls[t]) => calls[t][i].res = "ok"
    /\ Reported(t) =>
         /\ calls[t] # <<>>
         /\ ReportedDone(t) <=> AllStagesOK(t)
         /\ ReportedFailed(t) <=> calls[t][Len(calls[t])].res = "err"

\* C4 witness: one task went through all four stages and is Done, another
\* failed in UploadState and is Failed.
C4_Witness ==
  \E t, u \in TaskIds :
    /\ variant = "rewrite"
    /\ Len(calls[t]) = 4
    /\ ReportedDone(t)
    /\ Len(calls[u]) = 3
    /\ calls[u][3] = [op |-> "UploadState", res |-> "err"]
    /\ ReportedFailed(u)

\* C5: a task whose downloaded bytes do not parse as metadata gets no
\* workspace: Download is its only stage, and it is reported Failed with
\* IncompleteStateMetadata.
C5_ParseFailureFailsValidation ==
  \A t \in TaskIds :
    (calls[t] # <<>> /\ state[t] # NoBytes
       /\ Unmarshal(state[t], EmptyMeta, variant).err)
      => /\ Len(calls[t]) = 1
         /\ Reported(t) => outLog[t][1].err = "IncompleteStateMetadata"

\* C6: when a record of the input is unreadable or has the wrong number of
\* fields, main never gets past reading: no worker is started, nothing is
\* queued and nothing is done for any record; and in any run no worker is
\* started and nothing is queued while main still reads.
C6_BadInputExecutesNothing ==
  /\ BadInput =>
       /\ mainpc \in {"setup", "read", "exit1"}
       /\ queue = <<>>
       /\ wg = 0
       /\ enq = 0
       /\ \A w \in WorkerIds : wpc[w] = "init"
       /\ NothingExecuted
  /\ mainpc \in {"setup", "read"} =>
       /\ queue = <<>>
       /\ \A w \in WorkerIds : wpc[w] = "init"
       /\ NothingExecuted

\* C6 witness: main has exited on the second record, the first one being
\* well-formed.
C6_Witness ==
  /\ mainpc = "exit1"
  /\ Len(input) = 2
  /\ idx = 2
  /\ tasks = 1
  /\ input[1].readable /\ input[1].n = NumFields(variant)

\* C7 as stated: past wg.Wait(), every worker has exited.
C7_WorkersExitedPastBarrier ==
  PastBarrier => \A w \in WorkerIds : wpc[w] \notin {"recv", "download", "create",
                                                     "upload", "update", "done"}

\* C7 as amended: past wg.Wait(), every task has its outcome, the queue is
\* empty and every worker holds no task and stands at the receive of its
\* loop.
C7_WorkersIdlePastBarrier ==
  PastBarrier =>
    /\ \A t \in 1..tasks : Len(outLog[t]) = 1
    /\ queue = <<>>
    /\ \A w \in WorkerIds : wpc[w] = "recv" /\ wtask[w] = 0

\* C7 witness: main is past wg.Wait() after a run with tasks.
C7_Witness ==
  /\ mainpc = "finished"
  /\ tasks = MaxRecords
  /\ \A w \in WorkerIds : wpc[w] = "recv"

\* C11: every state version submitted is attached to the workspace that the
\* CreateWorkspace call of its own task returned, carries the lineage and
\* the serial of that task's metadata, and its checksum and payload are both
\* computed from the bytes that task downloaded; at no time do two workers
\* hold the same task, and the handle a worker holds is the one of the task
\* it holds.
C11_UploadUsesOwnTaskData ==
  /\ \A sv \in stateVersions :
       /\ sv.ws = sv.task
       /\ \E ws \in workspaces :
            ws.id = sv.ws /\ ws.name = WorkspaceName(sv.task)
       /\ sv.lineage = meta[sv.task].Lineage
       /\ sv.serial = meta[sv.task].Serial
       /\ state[sv.task] # NoBytes
       /\ sv.md5 = <<"md5", state[sv.task].id, state[sv.task].serial.n>>
       /\ sv.state = <<"base64", state[sv.task].id, state[sv.task].serial.n>>
  /\ \A w \in WorkerIds : wws[w] \in {0, wtask[w]}
  /\ \A w1, w2 \in WorkerIds :
       (w1 # w2 /\ wtask[w1] # 0) => wtask[w1] # wtask[w2]

\* C11 witness: two workers hold one task each at the same time, both past
\* the upload, and each task has its state version.
C11_Witness ==
  \E w1, w2 \in WorkerIds :
    /\ wtask[w1] = 1 /\ wtask[w2] = 2
    /\ wpc[w1] \in {"update", "done"} /\ wpc[w2] \in {"update", "done"}
    /\ \E sv \in stateVersions : sv.task = 1
    /\ \E sv \in stateVersions : sv.task = 2

\* Stage op of task t was called and returned without error.
StageSucceeded(t, op) ==
  \E i \in 1..Len(calls[t]) : calls[t][i] = [op |-> op, res |-> "ok"]

\* The last stage called for task t returned an error.
LastStageFailed(t) ==
  calls[t] # <<>> /\ calls[t][Len(calls[t])].res = "err"

\* C12: nothing is rolled back.  The workspace of every task whose
\* CreateWorkspace succeeded and the state version of every task whose
\* UploadState succeeded exist in every later state, whatever stage of the
\* task failed afterwards and whatever happened to the other tasks; a task
\* whose last stage failed is reported Failed; and the only calls ever made
\* are the four stages and, on Bitbucket, readFile, latestRevision and
\* writeFile: there is no delete.
C12_NoRollback ==
  \A t \in TaskIds :
    /\ StageSucceeded(t, "CreateWorkspace") =>
         \E ws \in workspaces : ws.id = t /\ ws.name = WorkspaceName(t)
    /\ StageSucceeded(t, "UploadState") =>
         \E sv \in stateVersions : sv.task = t /\ sv.ws = t
    /\ (Reported(t) /\ LastStageFailed(t)) => ReportedFailed(t)
    /\ \A i \in 1..Len(calls[t]) :
         calls[t][i].op \in {"Download", "CreateWorkspace", "UploadState",
                             "UpdateBackend"}
    /\ \A i \in 1..Len(bbcalls[t]) :
         bbcalls[t][i].op \in {"readFile", "latestRevision", "writeFile"}

\* C12 witness: the run is over; the first task failed in UpdateBackend and
\* the second in UploadState, and the workspaces of both and the state
\* version of the first are in place.
C12_Witness ==
  /\ mainpc = "finished"
  /\ tasks = 2
  /\ Len(calls[1]) = 4 /\ LastStageFailed(1) /\ ReportedFailed(1)
  /\ Len(calls[2]) = 3 /\ LastStageFailed(2) /\ ReportedFailed(2)
  /\ \E ws \in workspaces : ws.id = 1
  /\ \E ws \in workspaces : ws.id = 2
  /\ \E sv \in stateVersions : sv.task = 1
  /\ ~ \E sv \in stateVersions : sv.task = 2

\* The Bitbucket calls of updateBackend, in their order.
BitbucketOps == <<"readFile", "latestRevision", "writeFile">>

\* C13: the Bitbucket calls of a task are made in the order readFile,
\* latestRevision, writeFile, each once at most and only after the one before
\* succeeded, the block being looked for between the first two: when
\* readFile failed it is the only call, when no block was found nothing
\* follows the read, when latestRevision failed writeFile is not called.
\* Content is committed only by a writeFile that succeeded, once at most,
\* and it is a content read with its located span replaced; writeFile goes to
\* the URL, hence the file and the branch, that readFile read.
C13_WriteOnlyAfterRewrite ==
  \A t \in TaskIds :
    /\ Len(bbcalls[t]) <= Len(BitbucketOps)
    /\ \A i \in 1..Len(bbcalls[t]) :
         /\ bbcalls[t][i].op = BitbucketOps[i]
         /\ i < Len(bbcalls[t]) => bbcalls[t][i].res = "ok"
    /\ bbcalls[t] # <<>> => Len(calls[t]) = 4
    /\ Len(written[t]) <= 1
    /\ written[t] # <<>> <=>
         (Len(bbcalls[t]) = 3 /\ bbcalls[t][3].res = "ok")
    /\ written[t] # <<>> =>
         \E c \in FileContents :
           LET found == findTerraformBlock(c) IN
           /\ found # NotFound
           /\ written[t][1] =
                Slice(c, 0, found[1])
                  \o backendConfig(hostname, organization, WorkspaceName(t))
                  \o Slice(c, found[2], Len(c))
    /\ Len(bbcalls[t]) = 3 =>
         /\ bbcalls[t][3].url = bbcalls[t][1].url
         /\ bbcalls[t][3].url.file = <<"f", Digits[t]>>
         /\ bbcalls[t][3].url.at = <<"b", Digits[t]>>
    /\ (Reported(t) /\ outLog[t][1].err = "ReadFileFailed") =>
         /\ Len(bbcalls[t]) = 1 /\ bbcalls[t][1].res = "err"
         /\ written[t] = <<>>
    /\ (Reported(t) /\ outLog[t][1].err = "NoBlockFound") =>
         /\ Len(bbcalls[t]) = 1 /\ bbcalls[t][1].res = "ok"
         /\ written[t] = <<>>
    /\ (Reported(t) /\ outLog[t][1].err = "WriteFileFailed") =>
         /\ Len(bbcalls[t]) \in {2, 3}
         /\ bbcalls[t][Len(bbcalls[t])].res = "err"
         /\ written[t] = <<>>

\* C13 witness: for one task no block was found and nothing was written,
\* for the other latestRevision failed and nothing was written.
C13_Witness ==
  \E t, u \in TaskIds :
    /\ Reported(t) /\ outLog[t][1].err = "NoBlockFound"
    /\ Len(bbcalls[t]) = 1 /\ written[t] = <<>>
    /\ Reported(u) /\ outLog[u][1].err = "WriteFileFailed"
    /\ Len(bbcalls[u]) = 2 /\ written[u] = <<>>

\* The tasks main has called wg.Add(1) for: those sent, and the one main
\* is about to send.
Added == enq + (IF mainpc = "send" THEN 1 ELSE 0)

\* The tasks whose worker has called wg.Done(): those with an outcome that
\* no worker holds any more.
FinishedTasks ==
  { t \in 1..tasks : Reported(t) /\ \A w \in WorkerIds : wtask[w] # t }

\* C14: the counter of the WaitGroup is never negative and equals the
\* number of tasks main has added minus the number of tasks finished.  A
\* task is added before it is sent: whatever is in the queue or with a
\* worker is counted.  A task is finished after its outcome was logged: the
\* worker about to call wg.Done() holds a task that has its outcome.
\* wg.Wait() returns only when every task was sent and is finished.
C14_BarrierCountsTasksInFlight ==
  /\ wg >= 0
  /\ wg = Added - Cardinality(FinishedTasks)
  /\ enq <= Added /\ Added <= tasks
  /\ \A i \in 1..Len(queue) : queue[i] <= enq
  /\ \A w \in WorkerIds :
       /\ wtask[w] # 0 => wtask[w] <= enq
       /\ wpc[w] = "done" => (wtask[w] # 0 /\ Reported(wtask[w]))
  /\ PastBarrier =>
       /\ enq = tasks
       /\ FinishedTasks = 1..tasks
       /\ wg = 0

\* C14 witness: both tasks were added and sent; one is finished, the other
\* has its outcome but its worker has not called wg.Done() yet, and the
\* counter is one.
C14_Witness ==
  /\ mainpc = "wait"
  /\ enq = 2
  /\ wg = 1
  /\ Cardinality(FinishedTasks) = 1
  /\ \E w \in WorkerIds : wpc[w] = "done" /\ Reported(wtask[w])

\* The tasks in progress: received and not finished.
InProgress == { t \in 1..tasks : visits[t] > 0 } \ FinishedTasks

\* The tasks the workers hold.
Held == { wtask[w] : w \in WorkerIds } \ {0}

\* C15, in every state: a worker holds a task exactly while it is between
\* the receive and wg.Done(); the tasks in progress are the tasks the workers
\* hold, one each, so there are at most as many as workers.
C15_OneTaskPerWorker ==
  /\ \A w \in WorkerIds : wtask[w] = 0 <=> wpc[w] \in {"init", "recv"}
  /\ InProgress = Held
  /\ Cardinality(InProgress) = Cardinality({ w \in WorkerIds : wtask[w] # 0 })
  /\ Cardinality(InProgress) <= workers

\* C15, in every step: a worker takes a task only when it holds none and
\* stands at the receive; it gives up the task it holds only by wg.Done(),
\* when the outcome of that task is logged; and a stage is called for a task
\* only by the worker that holds it before and after the call.
C15_TaskHeldToCompletion ==
  /\ \A w \in WorkerIds :
       wtask'[w] # wtask[w] =>
         \/ wtask[w] = 0 /\ wpc[w] = "recv" /\ wpc'[w] = "download"
         \/ /\ wpc[w] = "done" /\ Reported(wtask[w])
            /\ wtask'[w] = 0 /\ wpc'[w] = "recv" /\ wg' = wg - 1
  /\ \A t \in TaskIds :
       (calls'[t] # calls[t] \/ outLog'[t] # outLog[t]) =>
         \E w \in WorkerIds : wtask[w] = t /\ wtask'[w] = t

\* C15: each worker works on one task at a time, to completion.
C15_OneTaskAtATimeToCompletion ==
  []C15_OneTaskPerWorker /\ [][C15_TaskHeldToCompletion]_vars

\* C15 witness: as many tasks are in progress as there are workers, each
\* worker in the middle of the stages of its own task.
C15_Witness ==
  /\ Cardinality(InProgress) = workers
  /\ \A w \in WorkerIds : wpc[w] \in {"create", "upload"}
  /\ \A t \in InProgress : calls[t] # <<>> /\ ~Reported(t)

\* How many times task t stands in the queue.
TimesQueued(t) == Cardinality({ i \in 1..Len(queue) : queue[i] = t })

\* C16, in every state: a task that main has sent is either in the queue,
\* once, or was received, once; a task main has not sent is neither.  No
\* stage and no Bitbucket call occurs twice among the calls made for a task,
\* and a task that has its outcome is not in the queue.
C16_EnqueuedOnceAttemptedOnce ==
  \A t \in TaskIds :
    /\ TimesQueued(t) + visits[t] = (IF t <= enq THEN 1 ELSE 0)
    /\ \A i, j \in 1..Len(calls[t]) : calls[t][i].op = calls[t][j].op => i = j
    /\ \A i, j \in 1..Len(bbcalls[t]) : bbcalls[t][i].op = bbcalls[t][j].op => i = j
    /\ Reported(t) => TimesQueued(t) = 0

\* C16, in every step: nothing of a task that has its outcome changes any
\* more, neither the outcome, nor the calls made for it, nor its bytes and
\* metadata, nor what was written for it, and it is not received again.
C16_OutcomeIsFinal ==
  \A t \in TaskIds :
    Reported(t) =>
      /\ outLog'[t] = outLog[t]
      /\ calls'[t] = calls[t]
      /\ bbcalls'[t] = bbcalls[t]
      /\ visits'[t] = visits[t]
      /\ state'[t] = state[t]
      /\ meta'[t] = meta[t]
      /\ written'[t] = written[t]
      /\ \A i \in 1..Len(queue') : queue'[i] # t
      /\ \A w \in WorkerIds : wtask'[w] = t => wtask[w] = t

\* C16: no task is retried or queued again.
C16_NoRetryNoRequeue ==
  []C16_EnqueuedOnceAttemptedOnce /\ [][C16_OutcomeIsFinal]_vars

\* C16 witness: the first task is Failed and finished after a failed
\* download, its worker is back at the receive with the queue empty, and the
\* other task is still in progress.
C16_Witness ==
  /\ ReportedFailed(1) /\ 1 \in FinishedTasks
  /\ calls[1] = <<[op |-> "Download", res |-> "err"]>>
  /\ queue = <<>>
  /\ 2 \in InProgress
  /\ \E w \in WorkerIds : wpc[w] = "recv"

\* The second run found the span that covers exactly the template the first
\* run put in, and gave the same text.
SecondRewriteChangesNothing ==
  LET tpl == backendConfig(hostname, organization, workspace) IN
  /\ span2 = <<span[1], span[1] + Len(tpl)>>
  /\ Slice(newText, span2[1], span2[2]) = tpl
  /\ newText2 = newText

\* No brace occurs in s.
NoBrace(s) == \A i \in 1..Len(s) : s[i] \notin {"{", "}"}

\* C17 as stated: rewriting a rewritten text again, with the same host
\* name, organization and workspace, whatever they are, finds the span that
\* covers exactly the template the first rewrite put in, and gives the same
\* text.
C17_RewriteIdempotent ==
  lpc = "rewritten2" => SecondRewriteChangesNothing

\* C17 as amended: the same, for a host name, an organization and a
\* workspace name in which no brace occurs.
C17_RewriteIdempotentWithoutBraces ==
  (lpc = "rewritten2" /\ NoBrace(hostname) /\ NoBrace(organization)
     /\ NoBrace(workspace))
    => SecondRewriteChangesNothing

\* C17 witness: a text with a closing brace before the keyword, a block
\* and text after it has been rewritten twice.
C17_Witness ==
  /\ lpc = "rewritten2"
  /\ text = <<"}">> \o terraform \o <<"{", "}", "x">>
  /\ workspace = <<"w", "s">>
  /\ span = <<1, 12>>
  /\ newText2 # text

\* main has passed the checks of its configuration and read the whole input.
ChecksPassed == mainpc \in {"start", "add", "send", "wait", "finished", "exit0"}

\* C18, in every state: when the process has exited with status one, no
\* worker was started and nothing was done for any record; when main has
\* passed its checks the input is well-formed; when the process has exited
\* with status zero, every task has its one outcome line, whether Done or
\* Failed, and the closing message follows them.
C18_ExitStatus ==
  /\ mainpc = "exit1" =>
       /\ \A w \in WorkerIds : wpc[w] = "init"
       /\ queue = <<>> /\ wg = 0 /\ enq = 0
       /\ NothingExecuted
  /\ ChecksPassed => ~BadInput /\ tasks = Len(input) /\ idx = Len(input)
  /\ mainpc = "exit0" =>
       /\ \A t \in 1..tasks : Len(outLog[t]) = 1
       /\ \A t \in TaskIds : t > tasks => outLog[t] = <<>>

\* C18, in every step: once main has passed its checks the process does not
\* exit with status one, whatever the tasks do, and it exits with status
\* zero only from behind wg.Wait().
C18_NoFailureExitAfterChecks ==
  /\ ChecksPassed => (ChecksPassed' /\ mainpc' # "exit1")
  /\ (mainpc # "exit0" /\ mainpc' = "exit0") => mainpc = "finished"
  /\ (mainpc # "exit1" /\ mainpc' = "exit1") => mainpc \in {"setup", "read"}

\* C18: failures of tasks do not change the exit status.
C18_TaskFailuresNotFatal ==
  []C18_ExitStatus /\ [][C18_NoFailureExitAfterChecks]_vars

\* C18 witness: the process has exited with status zero and every task of
\* a run of two is Failed.
C18_Witness ==
  /\ mainpc = "exit0"
  /\ tasks = 2
  /\ \A t \in 1..tasks : ReportedFailed(t)

\* C19: whenever findTerraformBlock returns a span, the character just
\* before its end is a closing brace, also when a closing brace follows the
\* keyword before any opening one.
C19_SpanEndsAfterClosingBrace ==
  (lpc # "locate" /\ span # NotFound) => At(text, span[2] - 1) = "}"

\* C20: once the workers are about to be started, whatever the number of
\* tasks and the capacity of the queue, main eventually has sent every task,
\* every task eventually has its outcome, Done or Failed, and main
\* eventually is past wg.Wait() and has printed the closing message.
C20_RunCompletes ==
  (mainpc = "start") ~>
    (/\ mainpc = "exit0"
     /\ enq = tasks
     /\ queue = <<>>
     /\ \A t \in 1..tasks : Reported(t))

\* C20 witness: main stands at the send of the second task with the queue
\* full, the first task not yet received.
C20_Witness ==
  /\ mainpc = "send"
  /\ tasks > queueCap
  /\ Len(queue) = queueCap
  /\ enq < tasks
  /\ \A w \in WorkerIds : wpc[w] = "recv"

\* <<start, end>> is (-1, -1) or a span of s: 0 <= start < end <= len(s).
WellFormedSpan(sp, s) ==
  \/ sp = NotFound
  \/ /\ sp[1] # -1 /\ sp[2] # -1
     /\ 0 <= sp[1] /\ sp[1] < sp[2] /\ sp[2] <= Len(s)

\* C21: what findTerraformBlock returns for a text is (-1, -1) or a pair
\* with 0 <= start < end <= len(text), never a pair with one component -1
\* alone, for the text read and for the text a former run wrote; so the two
\* slices of line 293 are in bounds, and the text written has the length of
\* the two slices and the template.
C21_SpanWellFormed ==
  /\ lpc # "locate" => WellFormedSpan(span, text)
  /\ lpc = "rewritten2" => WellFormedSpan(span2, newText)
  /\ lpc \in {"rewritten", "rewritten2"} =>
       /\ span # NotFound
       /\ Len(newText) =
            span[1] + Len(backendConfig(hostname, organization, workspace))
              + (Len(text) - span[2])

\* C21 witness: a span that starts after the first byte and ends with the
\* last byte of the text has been replaced.
C21_Witness ==
  /\ lpc = "rewritten"
  /\ span[1] > 0
  /\ span[2] = Len(text)
  /\ Len(newText) > Len(text)

====
